---- MODULE Spec2Model ----
(***************************************************************************)
(* A model of @lezer/highlight (src/src/highlight.ts): the tag lattice     *)
(* (Tag, Modifier), the selector compiler (styleTags, Rule), rule matching *)
(* (getStyleTags), tag highlighters (tagHighlighter, highlightTags) and    *)
(* the tree walker (HighlightBuilder, highlightTree).                      *)
(*                                                                         *)
(* Conventions.  Tag and modifier objects are identified by their position *)
(* in the registry sequence (the code's id is that position minus one);    *)
(* 0 stands for null/undefined.  A JavaScript string that the code scans   *)
(* character by character is a sequence of one-character strings.  A class *)
(* string is the sequence of its space-separated class names ("" is <<>>,  *)
(* a + " " + b is a \o b).                                                 *)
(***************************************************************************)
EXTENDS Integers, Sequences, FiniteSets, TLC

VARIABLES
  tags,       \* every Tag object created so far, in creation order
  instances,  \* every Modifier created so far: its instances array
  part,       \* styleTags: the selector part compiled last (or to compile)
  byName,     \* styleTags: the rule chain of each target name
  compiled,   \* styleTags: "input", "rule" (part compiled) or "thrown"
  theme,      \* tagHighlighter: the tag/class pairs of the highlighter
  tree,       \* the syntax tree: its nodes in document order
  mount,      \* the sub-tree mounted on a node of the tree, if any
  run         \* highlightTree: the arguments and the putStyle calls of a run

latticeVars == <<tags, instances>>

selectorVars == <<part, byName, compiled>>

walkVars == <<tree, mount, run>>

vars == <<tags, instances, part, byName, compiled, theme, tree, mount, run>>

----------------------------------------------------------------------------
(* Bounds of the model. *)

\* Tag objects (unmodified and modified) that may exist.
MaxTags == 8

\* Unmodified tags that Tag.define may create.
MaxDefined == 2

\* Characters of a selector part given to styleTags.
MaxPartLen == 4

\* The length of the document that is highlighted.
DocLen == 3

\* Nodes of a syntax tree, the root included.
MaxNodes == 3

\* Nodes of a host tree, the root included, whose mounted tree gets nodes of
\* its own.
MaxMountHost == 2

\* Nodes of a mounted tree below its root.
MaxInner == 1

\* Tag/class pairs given to tagHighlighter.
MaxPairs == 2

\* Rules compiled by one styleTags call.
MaxRules == 3

\* Ancestors of a node that rule matching looks at.
MaxAncestors == 2

\* Modifiers that Tag.defineModifier may create: two unmodified tags with
\* every combination of two modifiers are MaxTags tag objects.
MaxModifiers == MaxTags \div 4

----------------------------------------------------------------------------
(* Generic helpers: arrays. *)

Range(s) == {s[i] : i \in DOMAIN s}

\* Array.prototype.indexOf(x) > -1
Includes(s, x) == \E i \in DOMAIN s : s[i] = x

Min(a, b) == IF a < b THEN a ELSE b

Max(a, b) == IF a > b THEN a ELSE b

\* sameArray(a, b)
sameArray(a, b) == Len(a) = Len(b) /\ \A i \in DOMAIN a : a[i] = b[i]

RECURSIVE SortAscending(_)
\* Array.prototype.sort((a, b) => a.id - b.id) on an array of modifiers
\* (selection of the least id; the ids of an array are distinct).
SortAscending(s) ==
  IF Len(s) = 0 THEN <<>>
  ELSE LET i == CHOOSE k \in DOMAIN s : \A j \in DOMAIN s : s[k] <= s[j]
           rest == [j \in 1..(Len(s) - 1) |-> IF j < i THEN s[j] ELSE s[j + 1]]
       IN <<s[i]>> \o SortAscending(rest)

\* The mutant of SortModifiers: the concatenated array is left unsorted.
SortModifiersOmitted(mods) == mods

\* tag.modified.concat(mod).sort((a, b) => a.id - b.id)
SortModifiers(mods) == SortAscending(mods)

RECURSIVE powerSetUnsorted(_, _, _)
\* The double loop of powerSet: for each element array[i], every set built
\* so far is pushed again with array[i] appended.
powerSetUnsorted(array, i, sets) ==
  IF i > Len(array) THEN sets
  ELSE powerSetUnsorted(array, i + 1,
         sets \o [j \in 1..Len(sets) |-> Append(sets[j], array[i])])

RECURSIVE SortByLengthDesc(_, _)
\* sets.sort((a, b) => b.length - a.length): a stable sort, longest first.
SortByLengthDesc(sets, len) ==
  IF len < 0 THEN <<>>
  ELSE SelectSeq(sets, LAMBDA s : Len(s) = len) \o SortByLengthDesc(sets, len - 1)

\* The mutant of powerSet: the sort by decreasing length is left out.
powerSetNoSort(array) == powerSetUnsorted(array, 1, <<(<<>>)>>)

\* powerSet(array)
powerSet(array) == SortByLengthDesc(powerSetUnsorted(array, 1, <<(<<>>)>>), Len(array))

----------------------------------------------------------------------------
(* The tag lattice.  A registry st is [tags, instances].                   *)

\* new Tag(name, set, base, modified); the debugging name is not modelled.
NewTag(set, base, modified) == [set |-> set, base |-> base, modified |-> modified]

\* mods[0].instances.find(t => t.base == base && sameArray(mods, t.modified))
FindInstance(st, base, mods) ==
  LET inst == st.instances[mods[1]]
      hits == {i \in DOMAIN inst :
                 /\ st.tags[inst[i]].base = base
                 /\ sameArray(mods, st.tags[inst[i]].modified)}
  IN IF hits = {} THEN 0
     ELSE inst[CHOOSE i \in hits : \A j \in hits : i <= j]

RECURSIVE Flatten(_)
Flatten(ss) == IF Len(ss) = 0 THEN <<>> ELSE Head(ss) \o Flatten(Tail(ss))

RECURSIVE ModifierGet(_, _, _), FillSet(_, _, _, _, _), FillConfigs(_, _, _, _, _)
\* Modifier.get(base, mods): returns [st, tag].
ModifierGet(st, base, mods) ==
  IF Len(mods) = 0 THEN [st |-> st, tag |-> base]
  ELSE LET exists == FindInstance(st, base, mods)
       IN IF exists # 0 THEN [st |-> st, tag |-> exists]
          ELSE LET tag == Len(st.tags) + 1
                   st1 == [tags |-> Append(st.tags, NewTag(<<>>, base, mods)),
                           instances |-> [m \in DOMAIN st.instances |->
                              IF Includes(mods, m) THEN Append(st.instances[m], tag)
                              ELSE st.instances[m]]]
               IN [st |-> FillSet(st1, tag, st1.tags[base].set, 1, powerSet(mods)),
                   tag |-> tag]

\* for (let parent of base.set) if (!parent.modified.length) ..., from the
\* p-th tag of base.set.
FillSet(st, tag, parents, p, configs) ==
  IF p > Len(parents) THEN st
  ELSE IF Len(st.tags[parents[p]].modified) # 0
  THEN FillSet(st, tag, parents, p + 1, configs)
  ELSE FillSet(FillConfigs(st, tag, parents[p], configs, 1), tag, parents, p + 1, configs)

\* for (let config of configs) set.push(Modifier.get(parent, config)), from
\* the c-th config.
FillConfigs(st, tag, parent, configs, c) ==
  IF c > Len(configs) THEN st
  ELSE LET r == ModifierGet(st, parent, configs[c])
       IN FillConfigs([r.st EXCEPT !.tags[tag].set = Append(@, r.tag)],
                      tag, parent, configs, c + 1)

\* The mutant of ApplyModifier: the test for a modifier that the tag already
\* carries is left out.
ApplyModifierNoCheck(st, mod, tag) ==
  ModifierGet(st,
    IF st.tags[tag].base # 0 THEN st.tags[tag].base ELSE tag,
    SortModifiers(Append(st.tags[tag].modified, mod)))

\* The function returned by Tag.defineModifier, applied to a tag.
ApplyModifier(st, mod, tag) ==
  IF Includes(st.tags[tag].modified, mod) THEN [st |-> st, tag |-> tag]
  ELSE ModifierGet(st,
         IF st.tags[tag].base # 0 THEN st.tags[tag].base ELSE tag,
         SortModifiers(Append(st.tags[tag].modified, mod)))

\* The mutant of DefineTag: the set of the parent is not copied.
DefineTagAlone(st, parent) ==
  [st EXCEPT !.tags = Append(@, NewTag(<<Len(st.tags) + 1>>, 0, <<>>))]

\* Tag.define(parent) for an acceptable parent (0: none), as a new registry.
DefineTag(st, parent) ==
  LET tag == Len(st.tags) + 1
  IN [st EXCEPT !.tags = Append(@, NewTag(
        <<tag>> \o (IF parent # 0 THEN st.tags[parent].set ELSE <<>>), 0, <<>>))]

Registry == [tags |-> tags, instances |-> instances]

Unmodified == {t \in DOMAIN tags : tags[t].base = 0}

\* The variables of the other parts of the library, when a specification
\* leaves them alone.
SelectorIdle == part = <<>> /\ byName = <<>> /\ compiled = "input"

ThemeIdle == theme = <<>>

WalkIdle == tree = <<>> /\ mount = <<>> /\ run = <<>>

LatticeInit ==
  /\ tags = <<>>
  /\ instances = <<>>
  /\ SelectorIdle /\ ThemeIdle /\ WalkIdle

\* Tag.define(name?, parent?)
Define ==
  \E parent \in {0} \cup DOMAIN tags :
    /\ Cardinality(Unmodified) < MaxDefined
    /\ Len(tags) < MaxTags
    /\ IF parent # 0 /\ tags[parent].base # 0
       THEN \* throw new Error("Can not derive from a modified tag")
            UNCHANGED vars
       ELSE /\ tags' = DefineTag(Registry, parent).tags
            /\ UNCHANGED <<instances, selectorVars, theme, walkVars>>

\* Tag.defineModifier(name?): new Modifier(name)
DefineModifier ==
  /\ Len(instances) < MaxModifiers
  /\ instances' = Append(instances, <<>>)
  /\ UNCHANGED <<tags, selectorVars, theme, walkVars>>

\* A call of the function returned by Tag.defineModifier.
Apply ==
  \E mod \in DOMAIN instances, tag \in DOMAIN tags :
    LET r == ApplyModifier(Registry, mod, tag)
    IN /\ Len(r.st.tags) <= MaxTags
       /\ tags' = r.st.tags
       /\ instances' = r.st.instances
       /\ UNCHANGED <<selectorVars, theme, walkVars>>

LatticeNext == Define \/ DefineModifier \/ Apply

Spec == LatticeInit /\ [][LatticeNext]_vars

----------------------------------------------------------------------------
(* Properties of the tag lattice. *)

\* At most one tag of registry st per base tag and set of modifiers.
Interned(st) ==
  \A a, b \in DOMAIN st.tags :
    ( /\ st.tags[a].base # 0
      /\ st.tags[a].base = st.tags[b].base
      /\ Range(st.tags[a].modified) = Range(st.tags[b].modified) ) => a = b

\* C1: for every tag t and modifiers m1, m2 of any reachable registry,
\* m1(m2(t)) and m2(m1(t)), evaluated one after the other, are the same tag
\* object, and every reachable registry holds at most one tag per base tag
\* and modifier set.
C1_Commutative ==
  /\ Interned(Registry)
  /\ \A t \in DOMAIN tags, m1, m2 \in DOMAIN instances :
       LET a == ApplyModifier(Registry, m2, t)
           b == ApplyModifier(a.st, m1, a.tag)
           c == ApplyModifier(b.st, m1, t)
           d == ApplyModifier(c.st, m2, c.tag)
       IN d.tag = b.tag

\* A tag with two modifiers that was created by applying the modifier with
\* the smaller id to a tag carrying the one with the larger id: m2(t) is
\* older than m1(m2(t)), and m1(t) was only created for its set.
C1_Witness ==
  \E r, x, y \in DOMAIN tags :
    /\ tags[r].modified = <<1, 2>>
    /\ tags[x].base = tags[r].base /\ tags[x].modified = <<2>>
    /\ tags[y].base = tags[r].base /\ tags[y].modified = <<1>>
    /\ x < r /\ r < y

\* C2: for every tag t (modified or not) and modifier m of any reachable
\* registry, m(m(t)) is the tag m(t), and the second application leaves the
\* registry (the tags and every instance cache) as it was.
C2_Idempotent ==
  \A t \in DOMAIN tags, m \in DOMAIN instances :
    LET a == ApplyModifier(Registry, m, t)
        b == ApplyModifier(a.st, m, a.tag)
    IN b.tag = a.tag /\ b.st = a.st

\* A registry in which a modifier has been applied to a tag that carried
\* another one: both m(t) and m(m'(t)) exist for the second application.
C2_Witness ==
  \E r, x \in DOMAIN tags :
    /\ Len(tags[r].modified) = 2
    /\ Len(tags[x].modified) = 1
    /\ Includes(instances[tags[x].modified[1]], r)

\* The unmodified tag an entry of a specificity chain is built on.
BaseOf(e) == IF tags[e].base # 0 THEN tags[e].base ELSE e

\* The position of unmodified tag b in the chain of unmodified tag t.
BasePos(t, b) == CHOOSE p \in DOMAIN tags[t].set : tags[t].set[p] = b

\* R.set starts with R and holds, once each, exactly the tags Ms(anc) for
\* Ms a subset of R's modifiers and anc in the chain of R's base.
ChainMembers(r) ==
  LET rset == tags[r].set
      t == tags[r].base
  IN /\ rset[1] = r
     /\ \A i, j \in DOMAIN rset : rset[i] = rset[j] => i = j
     /\ \A i \in DOMAIN rset :
          /\ Range(tags[rset[i]].modified) \subseteq Range(tags[r].modified)
          /\ BaseOf(rset[i]) \in Range(tags[t].set)
     /\ \A anc \in Range(tags[t].set), ms \in SUBSET Range(tags[r].modified) :
          \E i \in DOMAIN rset :
            BaseOf(rset[i]) = anc /\ Range(tags[rset[i]].modified) = ms

\* The chain of r lists its entries by decreasing number of modifiers first
\* and, among entries with as many modifiers, by base specificity.
ByModifiersThenBase(r) ==
  LET rset == tags[r].set
      t == tags[r].base
  IN \A i, j \in DOMAIN rset : i < j =>
       \/ Len(tags[rset[i]].modified) > Len(tags[rset[j]].modified)
       \/ /\ Len(tags[rset[i]].modified) = Len(tags[rset[j]].modified)
          /\ BasePos(t, BaseOf(rset[i])) <= BasePos(t, BaseOf(rset[j]))

\* The chain of r lists its entries by base specificity first and, among
\* entries on the same base, by decreasing number of modifiers.
ByBaseThenModifiers(r) ==
  LET rset == tags[r].set
      t == tags[r].base
  IN \A i, j \in DOMAIN rset : i < j =>
       \/ BasePos(t, BaseOf(rset[i])) < BasePos(t, BaseOf(rset[j]))
       \/ /\ BaseOf(rset[i]) = BaseOf(rset[j])
          /\ Len(tags[rset[i]].modified) >= Len(tags[rset[j]].modified)

TwoModifiers == {r \in DOMAIN tags : Len(tags[r].modified) = 2}

----------------------------------------------------------------------------
(* The selector compiler: styleTags and Rule.                              *)
(* A part and a piece are sequences of characters; the backslash is not in *)
(* the alphabet, so a JSON string literal is a quote, characters other     *)
(* than the quote, and a quote.                                            *)

Slash == "/"

Bang == "!"

Star == "*"

Dot == "."

Quote == "\""

\* part.slice(pos), pos counted from 0
Slice(str, pos) == SubSeq(str, pos + 1, Len(str))

\* The first alternative of the regular expression, ^"(?:[^"\\]|\\.)*?": it
\* matches at index 0 only, lazily up to the next quote.  The length matched,
\* 0 for no match.
QuotedMatch(rest) ==
  IF Len(rest) >= 2 /\ rest[1] = Quote /\ \E j \in 2..Len(rest) : rest[j] = Quote
  THEN CHOOSE j \in 2..Len(rest) :
         rest[j] = Quote /\ \A k \in 2..(j - 1) : rest[k] # Quote
  ELSE 0

\* The second alternative, [^\/!]+ : it carries no ^, so exec finds it at the
\* first index where a character other than / and ! stands, and it runs as
\* far as such characters go.
RunMatch(rest) ==
  LET starts == {i \in DOMAIN rest : rest[i] \notin {Slash, Bang}}
  IN IF starts = {} THEN <<>>
     ELSE LET i == CHOOSE k \in starts : \A j \in starts : k <= j
              j == CHOOSE e \in i..Len(rest) :
                     /\ \A k \in i..e : rest[k] \notin {Slash, Bang}
                     /\ (e = Len(rest) \/ rest[e + 1] \in {Slash, Bang})
          IN SubSeq(rest, i, j)

\* /^"(?:[^"\\]|\\.)*?"|[^\/!]+/.exec(rest): m[0], or <<>> for null.
RegexExec(rest) ==
  IF QuotedMatch(rest) # 0 THEN SubSeq(rest, 1, QuotedMatch(rest))
  ELSE RunMatch(rest)

\* JSON.parse(text) of a text that starts with a quote: the string between
\* the quotes, or a SyntaxError.
JSONParse(text) ==
  IF /\ Len(text) >= 2
     /\ text[Len(text)] = Quote
     /\ \A k \in 2..(Len(text) - 1) : text[k] # Quote
  THEN [ok |-> TRUE, value |-> SubSeq(text, 2, Len(text) - 1)]
  ELSE [ok |-> FALSE, value |-> <<>>]

Thrown == [ok |-> FALSE, pieces |-> <<>>, mode |-> "Normal"]

RECURSIVE ParseLoop(_, _, _, _)
\* The loop for (let pos = 0;;) of styleTags over one part.
ParseLoop(prt, pos, rest, pieces) ==
  IF rest = <<Dot, Dot, Dot>> /\ pos > 0 /\ pos + 3 = Len(prt)
  THEN [ok |-> TRUE, pieces |-> pieces, mode |-> "Inherit"]
  ELSE
    LET m == RegexExec(rest)
    IN IF m = <<>> THEN Thrown
       ELSE IF m # <<Star>> /\ m[1] = Quote /\ ~JSONParse(m).ok THEN Thrown
       ELSE
         LET piece == IF m = <<Star>> THEN <<>>
                      ELSE IF m[1] = Quote THEN JSONParse(m).value
                      ELSE m
             pieces2 == Append(pieces, piece)
             pos1 == pos + Len(m)
         IN IF pos1 = Len(prt)
            THEN [ok |-> TRUE, pieces |-> pieces2, mode |-> "Normal"]
            ELSE LET next == prt[pos1 + 1]
                     pos2 == pos1 + 1
                 IN IF pos2 = Len(prt) /\ next = Bang
                    THEN [ok |-> TRUE, pieces |-> pieces2, mode |-> "Opaque"]
                    ELSE IF next # Slash THEN Thrown
                    ELSE ParseLoop(prt, pos2, Slice(prt, pos2), pieces2)

\* new Rule(tags, mode, context): context null is hasContext = FALSE.
NewRule(ruleTags, mode, pieces) ==
  [tags |-> ruleTags, mode |-> mode,
   hasContext |-> Len(pieces) > 1,
   context |-> SubSeq(pieces, 1, Len(pieces) - 1)]

\* The body of styleTags for one part: [ok, inner, rule], ok FALSE for a throw.
CompilePart(prt, ruleTags) ==
  LET r == ParseLoop(prt, 0, prt, <<>>)
      bad == [ok |-> FALSE, inner |-> <<>>, rule |-> NewRule(ruleTags, "Normal", <<>>)]
  IN IF ~r.ok THEN bad
     ELSE IF r.pieces[Len(r.pieces)] = <<>> THEN bad
     ELSE [ok |-> TRUE, inner |-> r.pieces[Len(r.pieces)],
           rule |-> NewRule(ruleTags, r.mode, r.pieces)]

\* Rule.depth
Depth(rule) == IF rule.hasContext THEN Len(rule.context) ELSE 0

RECURSIVE RuleSortLaterFirst(_, _)
\* The mutant of RuleSort: a rule is also placed before a rule of its own
\* depth (other.depth <= this.depth).
RuleSortLaterFirst(this, other) ==
  IF Len(other) = 0 \/ Depth(Head(other)) <= Depth(this)
  THEN <<this>> \o other
  ELSE <<Head(other)>> \o RuleSortLaterFirst(this, Tail(other))

\* The mutant of RuleSort: the new rule becomes the head of the chain.
RuleSortPrepend(this, other) == <<this>> \o other

RECURSIVE RuleSort(_, _)
\* Rule.sort(other): the chain (a rule and its next pointers) is the sequence
\* of its rules; other is the chain so far, <<>> for undefined.
RuleSort(this, other) ==
  IF Len(other) = 0 \/ Depth(Head(other)) < Depth(this)
  THEN <<this>> \o other
  ELSE <<Head(other)>> \o RuleSort(this, Tail(other))

\* byName[inner], <<>> for undefined
ChainOf(map, name) == IF name \in DOMAIN map THEN map[name] ELSE <<>>

\* byName[inner] = rule.sort(byName[inner])
AddRule(map, inner, rule) ==
  [n \in DOMAIN map \cup {inner} |->
     IF n = inner THEN RuleSort(rule, ChainOf(map, inner)) ELSE map[n]]

\* Object.create(null)
EmptyMap == [n \in {} |-> <<>>]

\* cursor.matchContext(context) for a node whose ancestors, innermost first,
\* have the names ancestors: the last piece names the parent, an empty piece
\* matches any one ancestor.
matchContext(ancestors, context) ==
  /\ Len(context) <= Len(ancestors)
  /\ \A k \in 1..Len(context) :
       LET piece == context[Len(context) - k + 1]
       IN piece = <<>> \/ piece = ancestors[k]

RECURSIVE FirstMatch(_, _)
\* while (rule && rule.context && !node.matchContext(rule.context))
\*   rule = rule.next
\* The rest of the chain from the rule the loop stops at.
FirstMatch(chain, ancestors) ==
  IF Len(chain) # 0 /\ Head(chain).hasContext
     /\ ~matchContext(ancestors, Head(chain).context)
  THEN FirstMatch(Tail(chain), ancestors)
  ELSE chain

\* getStyleTags(node): <<rule>> for a rule, <<>> for null.
getStyleTags(map, name, ancestors) ==
  LET rest == FirstMatch(ChainOf(map, name), ancestors)
  IN IF Len(rest) = 0 THEN <<>> ELSE <<Head(rest)>>

----------------------------------------------------------------------------
(* styleTags on every short part: the specification SelectorSpec.          *)

Alphabet == {"A", "B", Slash, Bang, Star, Dot, Quote}

\* Every non-empty part of at most MaxPartLen characters.
Parts == UNION {[1..n -> Alphabet] : n \in 1..MaxPartLen}

SelectorInit ==
  /\ tags = <<>>
  /\ instances = <<>>
  /\ part \in Parts
  /\ byName = EmptyMap
  /\ compiled = "input"
  /\ ThemeIdle /\ WalkIdle

\* styleTags({[part]: tag}): the part is compiled into byName, or the call
\* throws and returns nothing.
StyleTags ==
  /\ compiled = "input"
  /\ LET c == CompilePart(part, 1)
     IN IF c.ok
        THEN /\ byName' = AddRule(byName, c.inner, c.rule)
             /\ compiled' = "rule"
        ELSE /\ byName' = byName
             /\ compiled' = "thrown"
  /\ UNCHANGED <<part, latticeVars, theme, walkVars>>

SelectorNext == StyleTags

SelectorSpec == SelectorInit /\ [][SelectorNext]_vars

\* The pieces of the selector grammar at the start of str, as lengths: "*",
\* a JSON string literal, or characters other than / and ! (a piece that
\* starts with a quote is a string literal).
PieceLengths(str) ==
  {n \in 1..Len(str) :
     \/ /\ str[1] # Quote
        /\ \A k \in 1..n : str[k] \notin {Slash, Bang}
     \/ /\ n >= 2 /\ str[1] = Quote /\ str[n] = Quote
        /\ \A k \in 2..(n - 1) : str[k] # Quote}

RECURSIVE PiecePath(_)
\* piece ("/" piece)* with a last piece that names a node: neither "*" nor
\* the empty string.
PiecePath(str) ==
  \E n \in PieceLengths(str) :
    \/ /\ n = Len(str)
       /\ str # <<Star>>
       /\ str # <<Quote, Quote>>
    \/ /\ n < Len(str)
       /\ str[n + 1] = Slash
       /\ PiecePath(SubSeq(str, n + 2, Len(str)))

\* part := piece ("/" piece)* mode?, mode := "!" | "/..."
Conforms(prt) ==
  \/ PiecePath(prt)
  \/ /\ Len(prt) >= 2 /\ prt[Len(prt)] = Bang
     /\ PiecePath(SubSeq(prt, 1, Len(prt) - 1))
  \/ /\ Len(prt) >= 5
     /\ SubSeq(prt, Len(prt) - 3, Len(prt)) = <<Slash, Dot, Dot, Dot>>
     /\ PiecePath(SubSeq(prt, 1, Len(prt) - 4))

\* C7: styleTags throws for every part that does not conform to the selector
\* grammar; no such part is compiled into a rule.
C7_InvalidRejected ==
  (compiled # "input" /\ ~Conforms(part)) => (compiled = "thrown" /\ byName = EmptyMap)

----------------------------------------------------------------------------
(* One styleTags call that compiles several parts, and rule matching: the  *)
(* specification RuleSpec.                                                 *)

A == <<"A">>

B == <<"B">>

\* The parts that a call may hold, as the strings "B", "B!", "A/B", "*/B",
\* "B/B", "A/A/B", "*/A/B", "A/B/...", "A" and "B/A".
RuleParts ==
  { B, B \o <<Bang>>, A \o <<Slash>> \o B, <<Star, Slash>> \o B,
    B \o <<Slash>> \o B, A \o <<Slash>> \o A \o <<Slash>> \o B,
    <<Star, Slash>> \o A \o <<Slash>> \o B,
    A \o <<Slash>> \o B \o <<Slash, Dot, Dot, Dot>>,
    A, B \o <<Slash>> \o A }

\* The number of rules compiled so far.
RuleCount(map) ==
  LET names == DOMAIN map
      RECURSIVE Sum(_)
      Sum(ns) == IF ns = {} THEN 0
                 ELSE LET n == CHOOSE x \in ns : TRUE
                      IN Len(map[n]) + Sum(ns \ {n})
  IN Sum(names)

RuleInit ==
  /\ tags = <<>>
  /\ instances = <<>>
  /\ part = <<>>
  /\ byName = EmptyMap
  /\ compiled = "input"
  /\ ThemeIdle /\ WalkIdle

\* One turn of the loop of styleTags over the parts of its argument.  The
\* tags of the k-th part are written k: every property has tags of its own.
StyleTagsPart ==
  \E p \in RuleParts :
    /\ compiled # "thrown"
    /\ RuleCount(byName) < MaxRules
    /\ LET c == CompilePart(p, RuleCount(byName) + 1)
       IN IF c.ok
          THEN /\ byName' = AddRule(byName, c.inner, c.rule)
               /\ compiled' = "rule"
          ELSE /\ byName' = byName
               /\ compiled' = "thrown"
    /\ part' = p
    /\ UNCHANGED <<latticeVars, theme, walkVars>>

RuleNext == StyleTagsPart

RuleSpec == RuleInit /\ [][RuleNext]_vars

NodeNames == {A, B}

\* The names of a node's ancestors, innermost first.
AncestorLists == UNION {[1..n -> NodeNames] : n \in 0..MaxAncestors}

\* Rule q applies to a node with these ancestors.
Applies(q, ancestors) == ~q.hasContext \/ matchContext(ancestors, q.context)

\* C8: for every node, getStyleTags returns the first rule of the node's chain
\* whose context is absent or satisfied, and nothing when no rule applies;
\* every chain is ordered by context depth descending, so that no rule that
\* applies is deeper than the rule returned.
C8_DeepestWins ==
  \A name \in NodeNames, ancestors \in AncestorLists :
    LET chain == ChainOf(byName, name)
        r == getStyleTags(byName, name, ancestors)
    IN /\ (r = <<>>) <=> (\A i \in DOMAIN chain : ~Applies(chain[i], ancestors))
       /\ r # <<>> =>
            \E i \in DOMAIN chain :
              /\ chain[i] = r[1]
              /\ Applies(chain[i], ancestors)
              /\ \A j \in 1..(i - 1) : ~Applies(chain[j], ancestors)
       /\ \A i, j \in DOMAIN chain : i < j => Depth(chain[i]) >= Depth(chain[j])
       /\ r # <<>> =>
            \A i \in DOMAIN chain :
              Applies(chain[i], ancestors) => Depth(chain[i]) <= Depth(r[1])

\* "B" was compiled before "A/B", and B under A gets the rule of "A/B".
C8_Witness ==
  /\ Len(ChainOf(byName, B)) >= 2
  /\ \E i, j \in DOMAIN ChainOf(byName, B) :
       LET chain == ChainOf(byName, B)
       IN /\ chain[i].hasContext /\ chain[i].context = <<A>>
          /\ ~chain[j].hasContext
          /\ chain[j].tags < chain[i].tags
          /\ getStyleTags(byName, B, <<A>>) = <<chain[i]>>

\* Of the rules of a chain that have the depth of the rule returned and apply
\* to the node, the one returned was compiled first (TRUE) or last (FALSE).
ReturnedAmongTies(first) ==
  \A name \in NodeNames, ancestors \in AncestorLists :
    LET chain == ChainOf(byName, name)
        r == getStyleTags(byName, name, ancestors)
    IN r # <<>> =>
         \A i \in DOMAIN chain :
           (Applies(chain[i], ancestors) /\ Depth(chain[i]) = Depth(r[1])) =>
             IF first THEN r[1].tags <= chain[i].tags
             ELSE r[1].tags >= chain[i].tags

\* C9 as stated: among rules of equal depth for one target name the rule
\* compiled later stands earlier in the chain, and of the rules of equal depth
\* that apply the one declared last is returned.
C9_AsStated ==
  /\ \A name \in DOMAIN byName :
       \A i, j \in DOMAIN byName[name] :
         (i < j /\ Depth(byName[name][i]) = Depth(byName[name][j])) =>
           byName[name][i].tags > byName[name][j].tags
  /\ ReturnedAmongTies(FALSE)

\* C9 as amended: among rules of equal depth for one target name the rule
\* compiled earlier stands earlier in the chain, and of the rules of equal
\* depth that apply the one declared first is returned.
C9_EarlierFirst ==
  /\ \A name \in DOMAIN byName :
       \A i, j \in DOMAIN byName[name] :
         (i < j /\ Depth(byName[name][i]) = Depth(byName[name][j])) =>
           byName[name][i].tags < byName[name][j].tags
  /\ ReturnedAmongTies(TRUE)

\* Two rules of depth 1 for B, "A/B" and "*/B", that both apply to B under A.
C9_Witness ==
  \E i, j \in DOMAIN ChainOf(byName, B) :
    LET chain == ChainOf(byName, B)
    IN /\ i < j
       /\ chain[i].hasContext /\ chain[j].hasContext
       /\ {chain[i].context, chain[j].context} = {<<A>>, <<(<<>>)>>}
       /\ getStyleTags(byName, B, <<A>>) = <<chain[i]>>

----------------------------------------------------------------------------
(* Highlighters: tagHighlighter and highlightTags.  A highlighter is       *)
(* [pairs, all, scoped, scope]: the tag/class pairs in the order given,    *)
(* the class for all tokens (<<>> for none), and the top node names its    *)
(* scope predicate accepts (scoped FALSE for no predicate).  null and ""   *)
(* are both <<>>: the code only tests class strings for truthiness.        *)

\* map[sub.id] of tagHighlighter: the class of the last pair for the tag,
\* <<>> for undefined.
MapLookup(pairs, sub) ==
  LET hits == {i \in DOMAIN pairs : pairs[i].tag = sub}
  IN IF hits = {} THEN <<>>
     ELSE pairs[CHOOSE i \in hits : \A j \in hits : j <= i].class

\* cls ? cls + " " + value : value
JoinClass(cls, value) == cls \o value

RECURSIVE FirstClass(_, _, _)
\* for (let sub of tag.set) { let tagClass = map[sub.id]; if (tagClass) ... break }
FirstClass(pairs, chain, i) ==
  IF i > Len(chain) THEN <<>>
  ELSE IF MapLookup(pairs, chain[i]) # <<>> THEN MapLookup(pairs, chain[i])
  ELSE FirstClass(pairs, chain, i + 1)

\* The mutant of TagClass: only the tag itself is looked up, not its set.
TagClassNoFallback(reg, pairs, tag) == MapLookup(pairs, tag)

\* The class that one input tag contributes.
TagClass(reg, pairs, tag) == FirstClass(pairs, reg.tags[tag].set, 1)

RECURSIVE StyleLoop(_, _, _, _, _)
StyleLoop(reg, pairs, styleTags, i, cls) ==
  IF i > Len(styleTags) THEN cls
  ELSE StyleLoop(reg, pairs, styleTags, i + 1,
                 JoinClass(cls, TagClass(reg, pairs, styleTags[i])))

\* highlighter.style(tags) of a highlighter made by tagHighlighter
Style(reg, h, styleTags) == StyleLoop(reg, h.pairs, styleTags, 1, h.all)

RECURSIVE highlightTags(_, _, _)
\* highlightTags(highlighters, tags)
highlightTags(reg, highlighters, styleTags) ==
  IF Len(highlighters) = 0 THEN <<>>
  ELSE JoinClass(Style(reg, Head(highlighters), styleTags),
                 highlightTags(reg, Tail(highlighters), styleTags))

\* tagHighlighter(pairs, {scope, all})
tagHighlighter(pairs, all, scoped, scope) ==
  [pairs |-> pairs, all |-> all, scoped |-> scoped, scope |-> scope]

----------------------------------------------------------------------------
(* A highlighter over a small vocabulary: the specification ThemeSpec.     *)

\* The registry after  name = Tag.define(), variableName = Tag.define(name),
\* definition = Tag.defineModifier(), definition(variableName): the tags
\* 1 name, 2 variableName, 3 definition(variableName), 4 definition(name).
Vocabulary ==
  LET r0 == [tags |-> <<>>, instances |-> <<>>]
      r1 == DefineTag(r0, 0)
      r2 == DefineTag(r1, 1)
      r3 == [r2 EXCEPT !.instances = Append(@, <<>>)]
  IN ApplyModifier(r3, 1, 2).st

\* Class strings of a theme: the empty string and two class names.
ClassNames == {<<>>, <<"V">>, <<"VD">>}

ThemeInit ==
  /\ tags = Vocabulary.tags
  /\ instances = Vocabulary.instances
  /\ theme = <<>>
  /\ SelectorIdle /\ WalkIdle

\* One more tag/class pair in the array given to tagHighlighter.
AddStyle ==
  \E tag \in DOMAIN tags, class \in ClassNames :
    /\ Len(theme) < MaxPairs
    /\ theme' = Append(theme, [tag |-> tag, class |-> class])
    /\ UNCHANGED <<latticeVars, selectorVars, walkVars>>

ThemeNext == AddStyle

ThemeSpec == ThemeInit /\ [][ThemeNext]_vars

\* The tags that the pairs of the theme map.
Mapped == {theme[i].tag : i \in DOMAIN theme}

\* The class that the pairs give a mapped tag (the last pair for it).
ClassOf(tag) ==
  theme[CHOOSE i \in DOMAIN theme :
          theme[i].tag = tag /\ \A j \in DOMAIN theme : theme[j].tag = tag => j <= i].class

\* The class of the first tag of t.set that satisfies mapped, nothing when
\* no tag of t.set does.
FirstOf(t, mapped) ==
  LET chain == tags[t].set
      at == {i \in DOMAIN chain : chain[i] \in mapped}
  IN IF at = {} THEN <<>>
     ELSE ClassOf(chain[CHOOSE i \in at : \A j \in at : i <= j])

\* The tags that the pairs map to a class string that is not empty.
MappedToClass == {t \in Mapped : ClassOf(t) # <<>>}

\* Input tag sequences of at most two tags.
TagInputs == UNION {[1..n -> DOMAIN tags] : n \in 0..2}

\* What the style function of tagHighlighter(theme) returns when every input
\* tag contributes the class of the first tag of its set that is in mapped.
StyleIs(mapped) ==
  LET h == tagHighlighter(theme, <<>>, FALSE, {})
  IN /\ \A input \in TagInputs :
          Style(Registry, h, input) =
            Flatten([i \in DOMAIN input |-> FirstOf(input[i], mapped)])
     /\ (3 \in mapped /\ 2 \in mapped) =>
          /\ Style(Registry, h, <<3>>) = ClassOf(3)
          /\ Style(Registry, h, <<2>>) = ClassOf(2)
     /\ \A a \in DOMAIN tags :
          mapped = {a} =>
            \A b \in DOMAIN tags :
              Includes(tags[b].set, a) => Style(Registry, h, <<b>>) = ClassOf(a)

\* C4 as stated: every input tag contributes exactly the class of the first
\* tag of its set that the pairs map, whatever the class string of that pair,
\* and nothing when no tag of its set is mapped.
C4_AsStated == StyleIs(Mapped)

\* C4: every input tag contributes exactly the class of the first tag of its
\* set that the pairs map to a non-empty class string, and nothing when no tag
\* of its set is mapped so; a tag mapped to the empty string is passed over
\* and the scan goes on to the less specific tags.  So definition(variableName)
\* mapped to VD and variableName to V are styled VD and V, and a theme that
\* gives a class to tag a only styles every tag b with a in b.set as a.
C4_Fallback == StyleIs(MappedToClass)

\* C4: a theme that gives variableName a class and definition(variableName)
\* none or the empty string, so that definition(variableName) falls back.
C4_Witness ==
  /\ 2 \in MappedToClass
  /\ 3 \notin MappedToClass
  /\ Style(Registry, tagHighlighter(theme, <<>>, FALSE, {}), <<3>>) = ClassOf(2)

----------------------------------------------------------------------------
(* Syntax trees and cursors.  A tree is the sequence of its nodes in       *)
(* document order (a node stands before its descendants), each node with   *)
(* its type name, its range and the position of its parent (0 for the      *)
(* root).  A mount is the mounted property of one node of the tree: at is  *)
(* the node (0 for no mount), overlay its ranges relative to the start of  *)
(* the node (<<>> for a mount without overlay) and inner the nodes of the  *)
(* mounted tree, at document positions.  A cursor is a position in the     *)
(* tree or in the mounted tree.  A document d holds the tree, the mount,   *)
(* the rules attached to the node types and the tag registry.              *)

NoMount == [at |-> 0, overlay |-> <<>>, inner |-> <<>>]

\* The nodes of the tree that the cursor is in.
NodesOf(d, cur) == IF cur.inner THEN d.mount.inner ELSE d.tree

\* The node that the cursor is on: its type.name, from and to.
NodeAt(d, cur) == NodesOf(d, cur)[cur.n]

\* The children of the node that the cursor is on.
ChildrenOf(d, cur) ==
  {m \in DOMAIN NodesOf(d, cur) : NodesOf(d, cur)[m].parent = cur.n}

\* The siblings after the node that the cursor is on.
SiblingsAfter(d, cur) ==
  {m \in DOMAIN NodesOf(d, cur) :
     m > cur.n /\ NodesOf(d, cur)[m].parent = NodeAt(d, cur).parent}

Least(set) == CHOOSE m \in set : \A k \in set : m <= k

\* cursor.firstChild(): the cursor after a successful move.
firstChild(d, cur) == [cur EXCEPT !.n = Least(ChildrenOf(d, cur))]

\* cursor.nextSibling(): the cursor after a successful move.
nextSibling(d, cur) == [cur EXCEPT !.n = Least(SiblingsAfter(d, cur))]

\* cursor.parent(): the root of a mounted tree has the host node as parent.
parent(d, cur) ==
  IF NodeAt(d, cur).parent = 0
  THEN [inner |-> FALSE, n |-> d.mount.at]
  ELSE [cur EXCEPT !.n = NodeAt(d, cur).parent]

RECURSIVE Ancestors(_, _)
\* The names of the ancestors of the node the cursor is on, innermost first.
Ancestors(d, cur) ==
  IF NodeAt(d, cur).parent = 0 /\ ~cur.inner THEN <<>>
  ELSE <<NodeAt(d, parent(d, cur)).name>> \o Ancestors(d, parent(d, cur))

\* type.isTop: the top node types of the host and of the mounted language.
TopName == <<"T">>

InnerTopName == <<"U">>

isTop(name) == name \in {TopName, InnerTopName}

\* cursor.tree && cursor.tree.prop(NodeProp.mounted)
Mounted(d, cur) == ~cur.inner /\ d.mount.at = cur.n

\* mounted && mounted.overlay
MountedOverlay(d, cur) == Mounted(d, cur) /\ Len(d.mount.overlay) > 0

\* The mutant of FilterScope: the scope of a highlighter is not looked at.
FilterScopeAll(highlighters, name) == highlighters

\* this.highlighters.filter(h => !h.scope || h.scope(type))
FilterScope(highlighters, name) ==
  SelectSeq(highlighters, LAMBDA h : ~h.scoped \/ name \in h.scope)

\* Rule.empty
RuleEmpty == NewRule(<<>>, "Normal", <<>>)

\* The mutant of opaque: no rule is opaque.
opaqueNever(rule) == FALSE

\* Rule.opaque
opaque(rule) == rule.mode = "Opaque"

----------------------------------------------------------------------------
(* HighlightBuilder.  A builder state w holds the fields at and class, the *)
(* cursor cur that highlightRange moves, the putStyle calls out made so    *)
(* far, and two records of the run that the code does not keep: spans, the *)
(* startSpan calls (position, class, the class before the call, and        *)
(* whether the call made a putStyle call), and calls, the highlightRange   *)
(* calls.                                                                  *)

\* The mutant of InheritClass: the classes of every rule are inherited.
InheritClassAnyMode(inheritedClass, tagCls, mode) ==
  IF Len(tagCls) # 0 THEN inheritedClass \o tagCls ELSE inheritedClass

\* if (tagCls) { ... if (rule.mode == Mode.Inherit) inheritedClass +=
\* (inheritedClass ? " " : "") + tagCls }: the classes that the children
\* inherit.
InheritClass(inheritedClass, tagCls, mode) ==
  IF Len(tagCls) # 0 /\ mode = "Inherit"
  THEN inheritedClass \o tagCls ELSE inheritedClass

\* The mutant of MountClass: the inherited classes cross the mount.
MountClassKept(mounted, inheritedClass) == inheritedClass

\* if (mounted) inheritedClass = ""
MountClass(mounted, inheritedClass) ==
  IF mounted THEN <<>> ELSE inheritedClass

\* The mutant of flush: the span is put whatever its length.
flushAnyLength(w, to) ==
  IF w.class # <<>>
  THEN [w EXCEPT !.out = Append(@, [from |-> w.at, to |-> to, class |-> w.class])]
  ELSE w

\* flush(to)
flush(w, to) ==
  IF to > w.at /\ w.class # <<>>
  THEN [w EXCEPT !.out = Append(@, [from |-> w.at, to |-> to, class |-> w.class])]
  ELSE w

\* The startSpan call that is recorded in spans.
SpanCall(w, at, cls, flushed) ==
  [at |-> at, cls |-> cls, before |-> w.class,
   emitted |-> Len(flushed.out) > Len(w.out)]

\* The mutant of startSpan: the span is flushed also when the class stays.
startSpanAlways(w, at, cls) ==
  LET flushed == flush(w, at)
  IN [flushed EXCEPT !.at = IF at > w.at THEN at ELSE w.at,
                     !.class = cls,
                     !.spans = Append(@, SpanCall(w, at, cls, flushed))]

\* startSpan(at, cls)
startSpan(w, at, cls) ==
  IF cls # w.class
  THEN LET flushed == flush(w, at)
       IN [flushed EXCEPT !.at = IF at > w.at THEN at ELSE w.at,
                          !.class = cls,
                          !.spans = Append(@, SpanCall(w, at, cls, flushed))]
  ELSE [w EXCEPT !.spans = Append(@, SpanCall(w, at, cls, w))]

\* The mutant of ReassertHost: no span is started after an overlay range.
ReassertHostOmitted(w, at, cls) == w

\* this.startSpan(Math.min(to, pos), cls) after the walk of the mounted tree
\* over one overlay range: the class string of the host is in force again.
ReassertHost(w, at, cls) == startSpan(w, at, cls)

\* A cursor move that is recorded in moves, with the cursor that made it: the
\* cursor of the host tree, or a cursor of inner.cursor().
Move(w, kind, cur) ==
  [w EXCEPT !.cur = cur,
            !.moves = Append(@, [kind |-> kind, inner |-> w.cur.inner])]

\* cursor.firstChild(), where the node has a child
EnterChildren(d, w) == Move(w, "firstChild", firstChild(d, w.cur))

\* cursor.nextSibling(), where the node has a next sibling
NextChild(d, w) == Move(w, "nextSibling", nextSibling(d, w.cur))

\* The mutant of LeaveChildren: the cursor stays on the last child.
LeaveChildrenOmitted(d, w) == w

\* cursor.parent() after the loop over the children
LeaveChildren(d, w) == Move(w, "parent", parent(d, w.cur))

\* The return of the highlightRange call number call, which the cursor
\* entered on the node entry, recorded in returns.
RangeReturn(w, entry, call) ==
  [w EXCEPT !.returns = Append(@, [call |-> call, entry |-> entry, exit |-> w.cur])]

RECURSIVE highlightRange(_, _, _, _, _, _)
RECURSIVE ChildLoop(_, _, _, _, _, _, _)
RECURSIVE GapLoop(_, _, _, _, _, _, _, _)
RECURSIVE OverlayLoop(_, _, _, _, _, _, _, _, _, _, _)

\* The do ... while (cursor.nextSibling()) loop over the children, from the
\* child the cursor is on.
ChildLoop(d, w, from, to, inheritedClass, highlighters, cls) ==
  LET node == NodeAt(d, w.cur)
      w2 == IF node.to <= from THEN w
            ELSE LET w1 == highlightRange(d, w, from, to, inheritedClass, highlighters)
                 IN startSpan(w1, Min(to, NodeAt(d, w1.cur).to), cls)
  IN IF node.to > from /\ node.from >= to THEN w
     ELSE IF SiblingsAfter(d, w2.cur) = {} THEN w2
     ELSE ChildLoop(d, NextChild(d, w2),
                    from, to, inheritedClass, highlighters, cls)

\* while (cursor.from < rangeTo) { ... } over the host children in one gap
\* between overlay ranges.
GapLoop(d, w, rangeFrom, rangeTo, nextPos, inheritedClass, highlighters, cls) ==
  IF NodeAt(d, w.cur).from < rangeTo
  THEN LET w1 == highlightRange(d, w, rangeFrom, rangeTo, inheritedClass, highlighters)
           w2 == startSpan(w1, Min(rangeTo, NodeAt(d, w1.cur).to), cls)
       IN IF NodeAt(d, w2.cur).to >= nextPos \/ SiblingsAfter(d, w2.cur) = {}
          THEN w2
          ELSE GapLoop(d, NextChild(d, w2),
                       rangeFrom, rangeTo, nextPos, inheritedClass, highlighters, cls)
  ELSE w

\* for (let i = 0, pos = start;; i++) { ... } over the overlay ranges of the
\* node at start..end; i counts from 1.
OverlayLoop(d, w, i, pos, start, end, from, to, inheritedClass, highlighters, st) ==
  LET overlay == d.mount.overlay
      hasNext == i <= Len(overlay)
      nextPos == IF hasNext THEN overlay[i].from + start ELSE end
      rangeFrom == Max(from, pos)
      rangeTo == Min(to, nextPos)
      w1 == IF rangeFrom < rangeTo /\ st.hasChild
            THEN GapLoop(d, w, rangeFrom, rangeTo, nextPos,
                         inheritedClass, highlighters, st.cls)
            ELSE w
  IN IF ~hasNext \/ nextPos > to THEN w1
     ELSE LET pos2 == overlay[i].to + start
              inner == [w1 EXCEPT !.cur = [inner |-> TRUE, n |-> 1]]
              w2 == highlightRange(d, inner, Max(from, overlay[i].from + start),
                                   Min(to, pos2), <<>>, st.innerHighlighters)
              w3 == ReassertHost([w2 EXCEPT !.cur = w1.cur], Min(to, pos2), st.cls)
          IN OverlayLoop(d, IF pos2 > from THEN w3 ELSE w1, i + 1, pos2,
                         start, end, from, to, inheritedClass, highlighters, st)

\* The highlightRange call that is recorded in calls: skipped for a call that
\* returns at once, the highlighters after the test of type.isTop, the class
\* and the mode of the rule for the others.
RangeCall(w, from, to, inheritedClass, highlighters, skipped, cls, mode) ==
  [w EXCEPT !.calls = Append(@, [cur |-> w.cur, from |-> from, to |-> to,
                                 inheritedClass |-> inheritedClass,
                                 highlighters |-> highlighters,
                                 skipped |-> skipped, cls |-> cls, mode |-> mode])]

\* highlightRange(cursor, from, to, inheritedClass, highlighters), the cursor
\* being w.cur
highlightRange(d, w, from, to, inheritedClass, highlighters) ==
  LET node == NodeAt(d, w.cur)
      start == node.from
      end == node.to
      returned ==
        IF start >= to \/ end <= from
        THEN RangeCall(w, from, to, inheritedClass, highlighters, TRUE, <<>>, "Normal")
        ELSE
          LET hls == IF isTop(node.name) THEN FilterScope(d.highlighters, node.name)
                     ELSE highlighters
              found == getStyleTags(d.rules, node.name, Ancestors(d, w.cur))
              rule == IF Len(found) = 0 THEN RuleEmpty ELSE found[1]
              tagCls == highlightTags(d.reg, hls, rule.tags)
              cls == IF Len(tagCls) # 0 THEN inheritedClass \o tagCls ELSE inheritedClass
              inherited == InheritClass(inheritedClass, tagCls, rule.mode)
              w0 == RangeCall(w, from, to, inheritedClass, hls, FALSE, cls, rule.mode)
              w1 == startSpan(w0, Max(from, start), cls)
          IN IF opaque(rule) THEN w1
             ELSE IF MountedOverlay(d, w1.cur)
             THEN LET hasChild == ChildrenOf(d, w1.cur) # {}
                      w2 == IF hasChild THEN EnterChildren(d, w1)
                            ELSE w1
                      st == [hasChild |-> hasChild, cls |-> cls,
                             innerHighlighters |-> FilterScope(d.highlighters, InnerTopName)]
                      w3 == OverlayLoop(d, w2, 1, start, start, end, from, to,
                                        inherited, hls, st)
                  IN IF hasChild THEN LeaveChildren(d, w3) ELSE w3
             ELSE IF ChildrenOf(d, w1.cur) # {}
             THEN LET w2 == EnterChildren(d, w1)
                      w3 == ChildLoop(d, w2, from, to,
                                      MountClass(Mounted(d, w1.cur), inherited),
                                      hls, cls)
                  IN LeaveChildren(d, w3)
             ELSE w1
  IN RangeReturn(returned, w.cur, Len(w.calls) + 1)

\* new HighlightBuilder(from, highlighters, putStyle), with tree.cursor()
NewBuilder(from) ==
  [at |-> from, class |-> <<>>, cur |-> [inner |-> FALSE, n |-> 1],
   out |-> <<>>, spans |-> <<>>, calls |-> <<>>, moves |-> <<>>,
   returns |-> <<>>]

\* highlightTree(tree, highlighters, putStyle, from, to): the builder at the
\* return.
highlightTree(d, from, to) ==
  flush(highlightRange(d, NewBuilder(from), from, to, <<>>, d.highlighters), to)

----------------------------------------------------------------------------
(* highlightTree over every small tree: the specification WalkSpec.        *)

N == <<"N">>

I == <<"I">>

O == <<"O">>

\* The registry after t1 = Tag.define(), t2 = Tag.define(),
\* t3 = Tag.define(), t4 = Tag.define(t1), t5 = Tag.define(),
\* t6 = Tag.define().
WalkRegistry ==
  LET r0 == [tags |-> <<>>, instances |-> <<>>]
  IN DefineTag(DefineTag(DefineTag(DefineTag(DefineTag(DefineTag(
       r0, 0), 0), 0), 1), 0), 0)

\* One turn of the loop of styleTags for a part that compiles.
WithRule(map, prt, ruleTags) ==
  LET c == CompilePart(prt, ruleTags)
  IN AddRule(map, c.inner, c.rule)

\* styleTags({"N": t1, "I/...": t2, "O!": t3, "I/N": t4, "T/...": t5,
\*            "I/I/...": t6})
WalkRules ==
  WithRule(WithRule(WithRule(WithRule(WithRule(WithRule(EmptyMap,
    N, <<1>>),
    I \o <<Slash, Dot, Dot, Dot>>, <<2>>),
    O \o <<Bang>>, <<3>>),
    I \o <<Slash>> \o N, <<4>>),
    TopName \o <<Slash, Dot, Dot, Dot>>, <<5>>),
    I \o <<Slash>> \o I \o <<Slash, Dot, Dot, Dot>>, <<6>>)

\* tagHighlighter([{tag: t1, class: "n"}, {tag: t2, class: "i"},
\*                 {tag: t3, class: "o"}, {tag: t4, class: "c"},
\*                 {tag: t6, class: "j"}]): no class for t5
H1 ==
  tagHighlighter(<<[tag |-> 1, class |-> <<"n">>], [tag |-> 2, class |-> <<"i">>],
                   [tag |-> 3, class |-> <<"o">>], [tag |-> 4, class |-> <<"c">>],
                   [tag |-> 6, class |-> <<"j">>]>>,
                 <<>>, FALSE, {})

\* tagHighlighter([{tag: [t1, t2], class: "n"}, {tag: t5, class: "r"}]): no
\* class for t3 and t6, and a class for the top node of the tree that its
\* descendants inherit
H2 ==
  tagHighlighter(<<[tag |-> 1, class |-> <<"n">>], [tag |-> 2, class |-> <<"n">>],
                   [tag |-> 5, class |-> <<"r">>]>>,
                 <<>>, FALSE, {})

\* tagHighlighter([{tag: t1, class: "u"}], {scope: type => type.name == "U"})
HU ==
  tagHighlighter(<<[tag |-> 1, class |-> <<"u">>]>>, <<>>, TRUE, {InnerTopName})

\* The highlighter arguments of highlightTree.
HighlighterLists == {<<H2>>, <<H1, HU>>}

NoRun ==
  [done |-> FALSE, from |-> 0, to |-> 0, highlighters |-> <<>>,
   out |-> <<>>, spans |-> <<>>, calls |-> <<>>, moves |-> <<>>,
   returns |-> <<>>, cur |-> [inner |-> FALSE, n |-> 1]]

\* The tree of the overlay example: the host node N[0..20] under the top
\* node, with an overlay over 5..10 and 12..15 whose mounted tree has the one
\* node O[6..9].
BlockExample ==
  [tree |-> <<[name |-> TopName, from |-> 0, to |-> 20, parent |-> 0],
              [name |-> N, from |-> 0, to |-> 20, parent |-> 1]>>,
   mount |-> [at |-> 2,
              overlay |-> <<[from |-> 5, to |-> 10], [from |-> 12, to |-> 15]>>,
              inner |-> <<[name |-> InnerTopName, from |-> 5, to |-> 15, parent |-> 0],
                          [name |-> O, from |-> 6, to |-> 9, parent |-> 1]>>]]

\* The parser has made the top node of a document of length DocLen, or the
\* whole tree of the overlay example.
WalkInit ==
  /\ tags = WalkRegistry.tags
  /\ instances = WalkRegistry.instances
  /\ part = <<>>
  /\ byName = WalkRules
  /\ compiled = "rule"
  /\ ThemeIdle
  /\ \/ /\ tree = <<[name |-> TopName, from |-> 0, to |-> DocLen, parent |-> 0]>>
        /\ mount = NoMount
     \/ /\ tree = BlockExample.tree
        /\ mount = BlockExample.mount
  /\ run = NoRun

RECURSIVE RightmostPath(_, _)
\* The node k of the tree and its ancestors.
RightmostPath(nodes, k) ==
  IF k = 0 THEN {} ELSE {k} \cup RightmostPath(nodes, nodes[k].parent)

\* The end of the last child of node p, the start of p when it has none.
ChildrenEnd(nodes, p) ==
  LET children == {m \in DOMAIN nodes : nodes[m].parent = p}
  IN IF children = {} THEN nodes[p].from
     ELSE nodes[CHOOSE m \in children : \A k \in children : k <= m].to

\* The nodes that can come next in document order: a child of the last node
\* or of one of its ancestors, after the children that the parent has.
NextNodes(nodes) ==
  {[name |-> name, from |-> f, to |-> t, parent |-> p] :
     name \in {N, I, O}, f \in 0..DocLen, t \in 0..DocLen,
     p \in RightmostPath(nodes, Len(nodes))}

FitsIn(nodes, node) ==
  /\ ChildrenEnd(nodes, node.parent) <= node.from
  /\ node.from <= node.to
  /\ node.to <= nodes[node.parent].to

\* The parser adds a node to the tree.
AddNode ==
  /\ ~run.done
  /\ mount.at = 0
  /\ Len(tree) < MaxNodes
  /\ \E node \in NextNodes(tree) :
       /\ FitsIn(tree, node)
       /\ tree' = Append(tree, node)
  /\ UNCHANGED <<latticeVars, selectorVars, theme, mount, run>>

\* The overlay range lists for a host node of the given length: one or two
\* non-empty ranges in order.
Overlays(length) ==
  LET ranges == {[from |-> f, to |-> t] : f \in 0..length, t \in 0..length}
      proper == {r \in ranges : r.from < r.to}
  IN {<<r>> : r \in proper}
       \cup {pair \in {<<r1, r2>> : r1 \in proper, r2 \in proper} :
               pair[1].to <= pair[2].from}

\* A mixed-language parser mounts a tree on a node, with or without overlay.
\* The mounted tree of an overlay reaches from the start of the first overlay
\* range to the end of the last.
AddMount ==
  /\ ~run.done
  /\ mount.at = 0
  /\ \E k \in DOMAIN tree :
       \E overlay \in Overlays(tree[k].to - tree[k].from) \cup {<<>>} :
         mount' =
           [at |-> k, overlay |-> overlay,
            inner |-> IF Len(overlay) = 0 THEN <<>>
                      ELSE <<[name |-> InnerTopName,
                              from |-> overlay[1].from + tree[k].from,
                              to |-> overlay[Len(overlay)].to + tree[k].from,
                              parent |-> 0]>>]
  /\ UNCHANGED <<latticeVars, selectorVars, theme, tree, run>>

\* The inner parser adds a node to the mounted tree.
AddInner ==
  /\ ~run.done
  /\ Len(mount.inner) > 0
  /\ Len(mount.inner) <= MaxInner
  /\ Len(tree) <= MaxMountHost
  /\ \E node \in NextNodes(mount.inner) :
       /\ FitsIn(mount.inner, node)
       /\ mount' = [mount EXCEPT !.inner = Append(@, node)]
  /\ UNCHANGED <<latticeVars, selectorVars, theme, tree, run>>

\* highlightTree(tree, highlighters, putStyle, from, to)
HighlightTree ==
  \E from \in 0..tree[1].to, to \in 0..tree[1].to,
     highlighters \in HighlighterLists :
    /\ ~run.done
    /\ from <= to
    /\ \E w \in {highlightTree([tree |-> tree, mount |-> mount, rules |-> byName,
                                 reg |-> Registry, highlighters |-> highlighters],
                                from, to)} :
         run' = [done |-> TRUE, from |-> from, to |-> to,
                 highlighters |-> highlighters, out |-> w.out,
                 spans |-> w.spans, calls |-> w.calls, moves |-> w.moves,
                 returns |-> w.returns, cur |-> w.cur]
    /\ UNCHANGED <<latticeVars, selectorVars, theme, tree, mount>>

WalkNext == AddNode \/ AddMount \/ AddInner \/ HighlightTree

WalkSpec == WalkInit /\ [][WalkNext]_vars

----------------------------------------------------------------------------
(* Properties of the putStyle calls of a run.                              *)

\* The document of the state.
Doc == [tree |-> tree, mount |-> mount, rules |-> byName, reg |-> Registry,
        highlighters |-> run.highlighters]

\* C5: every putStyle(f, t, classes) call of a highlightTree run over
\* [from, to] has from <= f < t <= to and a class string that is not empty,
\* and every call starts at or after the end of the call before it.
C5_Ordered ==
  run.done =>
    \A j \in DOMAIN run.out :
      /\ run.from <= run.out[j].from
      /\ run.out[j].from < run.out[j].to
      /\ run.out[j].to <= run.to
      /\ run.out[j].class # <<>>
      /\ j > 1 => run.out[j - 1].to <= run.out[j].from

\* C5: a run over a tree with an overlay mount that makes three putStyle
\* calls, one of them for the mounted tree.
C5_Witness ==
  /\ run.done
  /\ Len(mount.overlay) > 0
  /\ Len(run.out) >= 3
  /\ \E k \in DOMAIN run.calls : run.calls[k].cur.inner /\ run.calls[k].cls # <<>>

\* Two putStyle calls that follow each other with the same class string and
\* touching ranges.
Touching(j) ==
  /\ run.out[j].class = run.out[j + 1].class
  /\ run.out[j].to = run.out[j + 1].from

\* C6 as stated: no two consecutive putStyle calls of a run have identical
\* class strings and prev.to = next.from.
C6_AsStated ==
  run.done => \A j \in 1..(Len(run.out) - 1) : ~Touching(j)

\* The startSpan call that made the j-th putStyle call.
EmittingCall(j) ==
  CHOOSE k \in DOMAIN run.spans :
    /\ run.spans[k].emitted
    /\ Cardinality({i \in 1..k : run.spans[i].emitted}) = j

\* C6: a putStyle call is made by startSpan only when the class string
\* changes, so spans that are started one after the other with the same class
\* string are merged into one call; two consecutive calls with identical class
\* strings and prev.to = next.from are made only when a span with another
\* class string was started at prev.to between them.
C6_Coalescing ==
  run.done =>
    /\ \A k \in DOMAIN run.spans :
         run.spans[k].emitted => run.spans[k].cls # run.spans[k].before
    /\ \A j \in 1..(Len(run.out) - 1) :
         Touching(j) =>
           /\ run.spans[EmittingCall(j)].before = run.out[j].class
           /\ run.spans[EmittingCall(j)].cls # run.out[j].class
           /\ run.spans[EmittingCall(j)].at = run.out[j].to

\* C6: two sibling nodes with the same class, the second starting where the
\* first ends, under a parent without class: two touching putStyle calls.
C6_Witness ==
  /\ run.done
  /\ run.highlighters = <<H1, HU>>
  /\ mount.at = 0
  /\ Len(tree) = 3
  /\ tree[2].parent = 1 /\ tree[3].parent = 1
  /\ tree[2].name = N /\ tree[3].name = N
  /\ Len(run.out) = 2
  /\ Touching(1)

RECURSIVE Above(_, _)
\* The cursors on the ancestors of the node that the cursor is on.
Above(d, cur) ==
  IF NodeAt(d, cur).parent = 0 /\ ~cur.inner THEN {}
  ELSE {parent(d, cur)} \cup Above(d, parent(d, cur))

\* The highlightRange calls that find an Opaque rule.
OpaqueCalls ==
  {k \in DOMAIN run.calls : ~run.calls[k].skipped /\ run.calls[k].mode = "Opaque"}

\* No highlightRange call of the run is on a descendant of the node of call k.
NoDescent(k) ==
  \A m \in DOMAIN run.calls : run.calls[k].cur \notin Above(Doc, run.calls[m].cur)

\* The putStyle calls of the run that overlap a..b.
Overlapping(a, b) ==
  {j \in DOMAIN run.out : run.out[j].from < b /\ a < run.out[j].to}

\* The putStyle calls of the run that lie in a..b.
Within(a, b) ==
  {j \in DOMAIN run.out : a <= run.out[j].from /\ run.out[j].to <= b}

\* The tree O[0..DocLen] > N[1..2] of the example, highlighted as a whole
\* with "O!" mapped to the class o.
OpaqueExample ==
  /\ run.done
  /\ run.from = 0 /\ run.to = DocLen
  /\ run.highlighters = <<H1, HU>>
  /\ mount.at = 0
  /\ tree = <<[name |-> TopName, from |-> 0, to |-> DocLen, parent |-> 0],
              [name |-> O, from |-> 0, to |-> DocLen, parent |-> 1],
              [name |-> N, from |-> 1, to |-> 2, parent |-> 2]>>

\* C10 as stated: when an Opaque rule matches node N the walker does not
\* descend into N and the run makes exactly one putStyle call in N, over
\* [N.from, N.to] clipped to [from, to], with the inherited classes plus the
\* classes of the rule.
C10_AsStated ==
  run.done =>
    \A k \in OpaqueCalls :
      LET c == run.calls[k]
          a == Max(run.from, NodeAt(Doc, c.cur).from)
          b == Min(run.to, NodeAt(Doc, c.cur).to)
      IN /\ NoDescent(k)
         /\ Overlapping(a, b) = Within(a, b)
         /\ \E j \in DOMAIN run.out :
              /\ Within(a, b) = {j}
              /\ run.out[j] = [from |-> a, to |-> b, class |-> c.cls]

\* C10: when an Opaque rule matches node N in a highlightRange call over
\* [f, t] (the range of the run, or a gap between overlay ranges of an
\* ancestor), the walker does not descend into N, and over the range of N
\* clipped to [f, t] the class string is the inherited classes plus the
\* classes of the rule, without a break: when the clipped range is not empty,
\* exactly one putStyle call overlaps it if the string is not empty, a call
\* that covers all of it and carries that string (it reaches beyond N where
\* the text next to N has the same class string), and no putStyle call
\* overlaps it if the string is empty; a node of length zero gets no call of
\* its own.  For O[0..DocLen] > N[1..2] with "O!" mapped to o the only call is
\* (0, DocLen, "o").
C10_Opaque ==
  /\ run.done =>
       \A k \in OpaqueCalls :
         LET c == run.calls[k]
             a == Max(c.from, NodeAt(Doc, c.cur).from)
             b == Min(c.to, NodeAt(Doc, c.cur).to)
         IN /\ NoDescent(k)
            /\ (a < b /\ c.cls # <<>>) =>
                 \E j \in DOMAIN run.out :
                   /\ Overlapping(a, b) = {j}
                   /\ run.out[j].from <= a
                   /\ b <= run.out[j].to
                   /\ run.out[j].class = c.cls
            /\ (a < b /\ c.cls = <<>>) => Overlapping(a, b) = {}
  /\ OpaqueExample =>
       run.out = <<[from |-> 0, to |-> DocLen, class |-> <<"o">>]>>

\* C10: the run of the example, with an Opaque node that has a child.
C10_Witness ==
  /\ OpaqueExample
  /\ OpaqueCalls # {}

\* p is a prefix of the class string s.
IsPrefix(p, s) == Len(p) <= Len(s) /\ SubSeq(s, 1, Len(p)) = p

\* The highlightRange calls that got past the range test.
Walked == {k \in DOMAIN run.calls : ~run.calls[k].skipped}

\* The classes that the highlighters gave the node of call k: its class
\* string without the inherited classes.
TagCls(k) ==
  SubSeq(run.calls[k].cls, Len(run.calls[k].inheritedClass) + 1,
         Len(run.calls[k].cls))

\* The calls on a node with an Inherit rule that the highlighters gave
\* classes.
InheritCalls ==
  {k \in Walked : run.calls[k].mode = "Inherit" /\ TagCls(k) # <<>>}

\* The node of call j is a descendant of the node of call k in the same tree,
\* and no node from k down to the parent of j has a tree mounted without
\* overlay.
DescendantInTree(k, j) ==
  LET kc == run.calls[k].cur
      jc == run.calls[j].cur
  IN /\ kc \in Above(Doc, jc)
     /\ kc.inner = jc.inner
     /\ \A c \in Above(Doc, jc) :
          (c = kc \/ kc \in Above(Doc, c)) =>
            ~(Mounted(Doc, c) /\ ~MountedOverlay(Doc, c))

\* The node of call j is a child of the node of call k in the same tree, and
\* no tree is mounted without overlay on the node of k.
ChildInTree(k, j) ==
  /\ DescendantInTree(k, j)
  /\ parent(Doc, run.calls[j].cur) = run.calls[k].cur

\* A rule that is not an Inherit rule with classes passes on the inherited
\* classes of its node unchanged.
NormalNotInherited ==
  \A k \in Walked \ InheritCalls : \A j \in DOMAIN run.calls :
    ChildInTree(k, j) =>
      run.calls[j].inheritedClass = run.calls[k].inheritedClass

\* Every putStyle call carries the class string of a walked node and lies in
\* the range of that node, clipped to the range of its highlightRange call.
EmissionsOfNodes ==
  \A e \in DOMAIN run.out : \E j \in Walked :
    /\ run.calls[j].cls = run.out[e].class
    /\ Max(run.calls[j].from, NodeAt(Doc, run.calls[j].cur).from) <= run.out[e].from
    /\ run.out[e].to <= Min(run.calls[j].to, NodeAt(Doc, run.calls[j].cur).to)

\* C11 as stated: when an Inherit rule matches node N and the highlighters
\* give it the classes C, the class string of every descendant of N with no
\* mounted tree between them starts with C; the classes of a Normal rule are
\* not added to the descendants.
C11_AsStated ==
  run.done =>
    /\ \A k \in InheritCalls : \A j \in Walked :
         DescendantInTree(k, j) => IsPrefix(TagCls(k), run.calls[j].cls)
    /\ NormalNotInherited

\* C11: when an Inherit rule matches node N and the highlighters give it the
\* classes C, the class string of N is the classes N inherited followed by C,
\* and the class string of every descendant of N with no mounted tree between
\* them starts with the class string of N, also where the descendant matches
\* a rule of its own; the putStyle calls carry the class strings of the walked
\* nodes; the classes of a Normal rule are not added to the descendants.
C11_Inheritance ==
  run.done =>
    /\ \A k \in InheritCalls : \A j \in Walked :
         DescendantInTree(k, j) =>
           /\ run.calls[k].cls = run.calls[k].inheritedClass \o TagCls(k)
           /\ IsPrefix(run.calls[k].cls, run.calls[j].cls)
           /\ IsPrefix(run.calls[k].cls, run.calls[j].inheritedClass)
    /\ EmissionsOfNodes
    /\ NormalNotInherited

\* C11: an Inherit node in an Inherit node, each with classes of its own, and
\* a putStyle call with the classes of both.
C11_Witness ==
  /\ run.done
  /\ \E k \in InheritCalls : \E j \in InheritCalls :
       /\ DescendantInTree(k, j)
       /\ TagCls(k) # TagCls(j)
       /\ \E e \in DOMAIN run.out : run.out[e].class = run.calls[j].cls

\* The node under the cursor belongs to a mounted tree: to the tree of an
\* overlay, or to the descendants of a node with a tree mounted without
\* overlay.
InMountedTree(cur) ==
  \/ cur.inner
  \/ \E c \in Above(Doc, cur) : Mounted(Doc, c) /\ ~MountedOverlay(Doc, c)

\* The node under the cursor is at the top of a mounted tree: the root of the
\* tree of an overlay, or a child of a node with a tree mounted without
\* overlay.
TopOfMountedTree(cur) ==
  /\ InMountedTree(cur)
  /\ ~InMountedTree(parent(Doc, cur))

\* The calls on the nodes of the mounted tree.
MountedCalls == {j \in DOMAIN run.calls : InMountedTree(run.calls[j].cur)}

\* The classes that the host gives the node that carries the mount, and the
\* classes that this node passes on, are not empty.
HostClassed ==
  \E k \in Walked :
    /\ Mounted(Doc, run.calls[k].cur)
    /\ run.calls[k].inheritedClass # <<>>
    /\ run.calls[k].cls # run.calls[k].inheritedClass

\* C12: the classes of the host do not cross a mount: the top nodes of a
\* mounted tree (the root of the tree of an overlay, the children of a node
\* with a tree mounted without overlay) are walked with an empty inherited
\* class, every node of the mounted tree inherits nothing or the class string
\* of an ancestor in the mounted tree, and every putStyle call that overlaps
\* the clipped range of a node of the mounted tree carries the class string of
\* a node of the mounted tree; the class r of the top node of the host is in
\* none of them.
C12_MountBoundary ==
  run.done =>
    \A j \in MountedCalls :
      LET c == run.calls[j]
          a == Max(c.from, NodeAt(Doc, c.cur).from)
          b == Min(c.to, NodeAt(Doc, c.cur).to)
      IN /\ TopOfMountedTree(c.cur) => c.inheritedClass = <<>>
         /\ \/ c.inheritedClass = <<>>
            \/ \E k \in MountedCalls \cap Walked :
                 /\ run.calls[k].cur \in Above(Doc, c.cur)
                 /\ run.calls[k].cls = c.inheritedClass
         /\ ~Includes(c.inheritedClass, "r")
         /\ ~c.skipped =>
              /\ ~Includes(c.cls, "r")
              /\ \A e \in Overlapping(a, b) :
                   /\ ~Includes(run.out[e].class, "r")
                   /\ \E m \in MountedCalls \cap Walked :
                        run.calls[m].cls = run.out[e].class

\* C12: a tree mounted without overlay on a node that inherits classes and
\* has classes of its own, and a putStyle call for a child of that node.
C12_Witness ==
  /\ run.done
  /\ mount.at # 0 /\ mount.overlay = <<>>
  /\ HostClassed
  /\ \E j \in MountedCalls \cap Walked : \E e \in DOMAIN run.out :
       /\ run.calls[j].cls # <<>>
       /\ run.out[e].class = run.calls[j].cls
       /\ NodeAt(Doc, run.calls[j].cur).from <= run.out[e].from
       /\ run.out[e].to <= NodeAt(Doc, run.calls[j].cur).to

\* The top node of the tree that the node under the cursor belongs to: the
\* root of the host tree, or the root of the tree of an overlay.
TopOf(cur) == [cur EXCEPT !.n = 1]

\* The class string that the putStyle calls out give position p.
ClassAt(out, p) ==
  IF \E e \in DOMAIN out : out[e].from <= p /\ p < out[e].to
  THEN out[CHOOSE e \in DOMAIN out : out[e].from <= p /\ p < out[e].to].class
  ELSE <<>>

\* Position p lies in an overlay range of the mount.
InOverlay(p) ==
  /\ mount.at # 0
  /\ \E i \in DOMAIN mount.overlay :
       /\ mount.overlay[i].from + tree[mount.at].from <= p
       /\ p < mount.overlay[i].to + tree[mount.at].from

\* The run over the same tree and range without the highlighters whose scope
\* rejects the top node of the host tree.
RunWithoutRejected ==
  highlightTree([Doc EXCEPT !.highlighters = FilterScope(run.highlighters, TopName)],
                run.from, run.to)

\* A highlighter of the run has a scope that rejects the top node of the host
\* tree.
SomeRejected == FilterScope(run.highlighters, TopName) # run.highlighters

\* C13: every node is styled by exactly the highlighters of the full list that
\* have no scope or whose scope accepts the top node of its tree (the root of
\* the host tree, the root of the tree of an overlay); the class u of the
\* highlighter HU, whose scope rejects the top node of the host, is in no class
\* string of a host node and in no putStyle call over a position outside the
\* overlay ranges; the host tree is styled as if the rejected highlighters
\* were absent: the same putStyle calls where no overlay is mounted, and the
\* same class string at every position outside the overlay ranges where one
\* is.
C13_ScopeIsolation ==
  run.done =>
    /\ \A j \in Walked :
         /\ run.calls[j].highlighters =
              FilterScope(run.highlighters, NodeAt(Doc, TopOf(run.calls[j].cur)).name)
         /\ ~run.calls[j].cur.inner => ~Includes(run.calls[j].cls, "u")
    /\ \A p \in 0..(tree[1].to - 1) :
         ~InOverlay(p) => ~Includes(ClassAt(run.out, p), "u")
    /\ SomeRejected =>
         LET without == RunWithoutRejected.out
         IN /\ mount.overlay = <<>> => without = run.out
            /\ \A p \in 0..(tree[1].to - 1) :
                 ~InOverlay(p) => ClassAt(without, p) = ClassAt(run.out, p)

\* C13: a run with the scoped highlighter HU over a host with an overlay: a
\* node N of the host gets the class n alone, a node N of the mounted tree
\* gets n and the class u of HU, and both are emitted.
C13_Witness ==
  /\ run.done
  /\ SomeRejected
  /\ \E j \in Walked : \E m \in Walked :
       /\ ~run.calls[j].cur.inner /\ run.calls[m].cur.inner
       /\ run.calls[j].cls = <<"n">>
       /\ run.calls[m].cls = <<"n", "u">>
       /\ \E e \in DOMAIN run.out : run.out[e].class = <<"n">>
       /\ \E e \in DOMAIN run.out : run.out[e].class = <<"n", "u">>

\* The calls on a node with an overlay whose rule is not Opaque: the calls that
\* walk the overlay.
HostCalls ==
  {k \in Walked : MountedOverlay(Doc, run.calls[k].cur)
                    /\ run.calls[k].mode # "Opaque"}

\* The run over the mounted tree alone, with no classes inherited.
InnerAlone ==
  highlightTree([Doc EXCEPT !.tree = mount.inner, !.mount = NoMount],
                run.from, run.to)

\* The run over the host tree with nothing mounted.
HostAlone == highlightTree([Doc EXCEPT !.mount = NoMount], run.from, run.to)

\* The overlay ranges, rebased by the start of the host, that the walk of
\* call k reaches: they start at or before the end of the range of the call
\* and end after its start.
ReachedRanges(k) ==
  {i \in DOMAIN mount.overlay :
     /\ mount.overlay[i].from + tree[mount.at].from <= run.calls[k].to
     /\ mount.overlay[i].to + tree[mount.at].from > run.calls[k].from}

\* The run of the overlay example as a whole, N classed n and O classed o.
BlockRun ==
  /\ run.done
  /\ tree = BlockExample.tree
  /\ mount = BlockExample.mount
  /\ run.from = 0 /\ run.to = 20
  /\ run.highlighters = <<H1, HU>>

MovesOf(inner) == SelectSeq(run.moves, LAMBDA m : m.inner = inner)

\* The successful firstChild() calls less the parent() calls among the first
\* n moves.
DepthAt(moves, n) ==
  Cardinality({i \in 1..n : moves[i].kind = "firstChild"})
    - Cardinality({i \in 1..n : moves[i].kind = "parent"})

\* Every firstChild() is followed by a parent() of its own, and the sibling
\* moves lie between a firstChild() and its parent().
Balanced(moves) ==
  /\ \A n \in DOMAIN moves :
       /\ DepthAt(moves, n) >= 0
       /\ moves[n].kind = "nextSibling" => DepthAt(moves, n) > 0
  /\ DepthAt(moves, Len(moves)) = 0

\* C17: every highlightRange call returns, with the cursor on the node it was
\* on at the entry, also at the end of the run; every successful firstChild()
\* has one parent() of its own after it, and the sibling moves of a cursor
\* lie between a firstChild() and its parent().
C17_CursorBalance ==
  run.done =>
    /\ Len(run.returns) = Len(run.calls)
    /\ {run.returns[r].call : r \in DOMAIN run.returns} = DOMAIN run.calls
    /\ \A r \in DOMAIN run.returns :
         /\ run.returns[r].entry = run.calls[run.returns[r].call].cur
         /\ run.returns[r].exit = run.returns[r].entry
    /\ run.cur = [inner |-> FALSE, n |-> 1]
    /\ Balanced(MovesOf(FALSE))
    /\ Balanced(MovesOf(TRUE))

\* C17: a run over a node with an overlay and two children: a call that
\* returns at the range test, a call on a leaf, a call on the root of the
\* mounted tree with a cursor of its own, and a sibling move in a gap.
C17_Witness ==
  /\ run.done
  /\ \E k \in HostCalls : Cardinality(ChildrenOf(Doc, run.calls[k].cur)) = 2
  /\ \E k \in DOMAIN run.calls : run.calls[k].skipped
  /\ \E m \in DOMAIN run.moves : run.moves[m].kind = "nextSibling"
  /\ \E r \in DOMAIN run.returns :
       run.returns[r].entry.inner /\ ~run.calls[run.returns[r].call].skipped
  /\ \E r \in DOMAIN run.returns :
       ChildrenOf(Doc, run.returns[r].entry) = {} /\ ~run.calls[run.returns[r].call].skipped

\* C16: in every registry, Tag.define with no parent makes a tag t with
\* t.set = [t], Tag.define(p) with an unmodified parent p makes a tag t with
\* t.set = [t] followed by p.set in the order of p.set, and neither changes
\* an existing tag; every unmodified tag of the registry has a set that starts
\* with the tag itself and goes on with the set of an older unmodified tag, or
\* with nothing.
C16_ParentInclusion ==
  /\ \A p \in {0} \cup Unmodified :
       LET defined == DefineTag(Registry, p)
           t == Len(tags) + 1
           set == defined.tags[t].set
           parentSet == IF p = 0 THEN <<>> ELSE tags[p].set
       IN /\ Len(defined.tags) = t
          /\ defined.instances = instances
          /\ defined.tags[t].base = 0
          /\ set[1] = t
          /\ Len(set) = 1 + Len(parentSet)
          /\ \A i \in DOMAIN parentSet : set[i + 1] = parentSet[i]
          /\ \A k \in DOMAIN tags : defined.tags[k] = tags[k]
  /\ \A t \in Unmodified :
       /\ tags[t].set[1] = t
       /\ \/ tags[t].set = <<t>>
          \/ \E p \in Unmodified : p < t /\ tags[t].set = <<t>> \o tags[p].set

\* C16: a tag defined with a parent, in a registry that also has modified
\* tags: the next Tag.define on it copies a set of two tags.
C16_Witness ==
  /\ \E t \in Unmodified : \E p \in Unmodified :
       /\ p # t
       /\ tags[t].set = <<t, p>>
       /\ DefineTag(Registry, t).tags[Len(tags) + 1].set = <<Len(tags) + 1, t, p>>
  /\ \E m \in DOMAIN tags : tags[m].base # 0

----------------------------------------------------------------------------
(* highlightCode over every small tree and text: the specification         *)
(* CodeSpec.                                                                *)

\* The line break "\n".
NL == "\n"

\* code.slice(from, to) for 0 <= from, positions counted from 0: to is cut
\* to the length of the string.
SliceTo(str, from, to) == SubSeq(str, from + 1, Min(to, Len(str)))

\* The mutant of IndexOf: no line break is found.
IndexOfNone(text, i) == -1

\* text.indexOf("\n", i): the first index from i on, counted from 0, that
\* holds a line break, -1 when there is none.
IndexOf(text, i) ==
  IF \E k \in (i + 1)..Len(text) : text[k] = NL
  THEN (CHOOSE k \in (i + 1)..Len(text) :
          text[k] = NL /\ \A j \in (i + 1)..(k - 1) : text[j] # NL) - 1
  ELSE -1

\* putText(text, classes), recorded in puts with the offset of the text in
\* code.
PutText(w, text, classes, at) ==
  [w EXCEPT !.puts = Append(@, [kind |-> "text", text |-> text,
                                classes |-> classes, at |-> at])]

\* putBreak(), recorded in puts with the offset of the line break in code.
PutBreak(w, at) ==
  [w EXCEPT !.puts = Append(@, [kind |-> "break", text |-> <<NL>>,
                                classes |-> <<>>, at |-> at])]

RECURSIVE WriteLoop(_, _, _, _)
\* for (let text = code.slice(pos, p), i = 0;;) { ... } of writeTo
WriteLoop(w, text, i, classes) ==
  LET nextBreak == IndexOf(text, i)
      upto == IF nextBreak < 0 THEN Len(text) ELSE nextBreak
      w1 == IF upto > i
            THEN PutText(w, SliceTo(text, i, upto), classes, w.pos + i)
            ELSE w
  IN IF nextBreak < 0 THEN w1
     ELSE WriteLoop(PutBreak(w1, w.pos + nextBreak), text, nextBreak + 1, classes)

\* writeTo(p, classes), on the text pos..p of code
writeTo(w, code, p, classes) ==
  IF p <= w.pos THEN w
  ELSE [WriteLoop(w, SliceTo(code, w.pos, p), 0, classes) EXCEPT !.pos = p]

RECURSIVE WriteStyles(_, _, _, _)
\* The putStyle callback of highlightCode, (from, to, classes) => {
\* writeTo(from, ""); writeTo(to, classes) }, for the putStyle calls from
\* number j on.
WriteStyles(w, code, out, j) ==
  IF j > Len(out) THEN w
  ELSE WriteStyles(writeTo(writeTo(w, code, out[j].from, <<>>),
                           code, out[j].to, out[j].class),
                   code, out, j + 1)

\* highlightCode(code, tree, highlighter, putText, putBreak, from, to): the
\* putStyle calls of highlightTree and the putText and putBreak calls.
highlightCode(code, d, from, to) ==
  LET out == highlightTree(d, from, to).out
      w == WriteStyles([pos |-> from, puts |-> <<>>], code, out, 1)
  IN [out |-> out, puts |-> writeTo(w, code, to, <<>>).puts]

\* The texts that are highlighted: the characters a and line break, as long
\* as the document or one character shorter.
Codes == UNION {[1..n -> {"a", NL}] : n \in (DocLen - 1)..DocLen}

CodeInit ==
  /\ WalkInit
  /\ mount = NoMount

\* highlightCode(code, tree, highlighters, putText, putBreak, from, to)
HighlightCode ==
  /\ ~run.done
  /\ \E code \in Codes, from \in 0..DocLen, to \in 0..DocLen,
        highlighters \in HighlighterLists :
       /\ from <= to
       /\ \E r \in {highlightCode(code, [tree |-> tree, mount |-> mount,
                                        rules |-> byName, reg |-> Registry,
                                        highlighters |-> highlighters],
                                  from, to)} :
            run' = [done |-> TRUE, code |-> code, from |-> from, to |-> to,
                    highlighters |-> highlighters, out |-> r.out,
                    puts |-> r.puts]
  /\ UNCHANGED <<latticeVars, selectorVars, theme, tree, mount>>

CodeNext == AddNode \/ HighlightCode

CodeSpec == CodeInit /\ [][CodeNext]_vars

RECURSIVE Concat(_)
\* The texts of the putText calls in call order, with one line break for
\* every putBreak call.
Concat(puts) ==
  IF Len(puts) = 0 THEN <<>> ELSE Head(puts).text \o Concat(Tail(puts))

\* The putText calls of the run.
Texts == {k \in DOMAIN run.puts : run.puts[k].kind = "text"}

\* C15: the texts of the putText calls in call order, with one line break for
\* every putBreak call, are code.slice(from, to): every call starts at the
\* offset where the call before it ended; no text of a putText call holds a
\* line break; a text inside a putStyle range has the class string of that
\* range and a text outside the putStyle ranges has the class string "".
C15_TextCoverage ==
  run.done =>
    /\ Concat(run.puts) = SliceTo(run.code, run.from, run.to)
    /\ \A k \in DOMAIN run.puts :
         run.puts[k].at = run.from + Len(Concat(SubSeq(run.puts, 1, k - 1)))
    /\ \A k \in Texts :
         /\ ~Includes(run.puts[k].text, NL)
         /\ \A q \in run.puts[k].at..(run.puts[k].at + Len(run.puts[k].text) - 1) :
              run.puts[k].classes = ClassAt(run.out, q)

\* C15: a run over a text with a line break inside a styled range, with text
\* before the styled range: putText calls with and without classes and a
\* putBreak call.
C15_Witness ==
  /\ run.done
  /\ \E k \in Texts : run.puts[k].classes = <<>>
  /\ \E k \in Texts : run.puts[k].classes # <<>>
  /\ \E k \in DOMAIN run.puts :
       /\ run.puts[k].kind = "break"
       /\ ClassAt(run.out, run.puts[k].at) # <<>>

====
